---------------------------- MODULE Spec2Model ----------------------------
(***************************************************************************)
(* DigitRecognizer: a LINE webhook bot (src/app.py).  POST /callback       *)
(* validates the X-Line-Signature header, dispatches the event to          *)
(* handle_text_message or handle_image_message, and the image handler runs *)
(* get_message_content -> preprocess_image -> model.predict -> argmax ->   *)
(* reply_message inside one try block with two except branches.            *)
(*                                                                         *)
(* Each request is a thread of the Flask development server started by     *)
(* app.run (src/app.py:125): app.run is given no threaded option, and the  *)
(* server then serves every request on a thread of its own.  One step of a *)
(* thread is one call of the handler's code.  External calls (the LINE     *)
(* API, the Keras model) return or raise; what they return is an input     *)
(* drawn from a small set.                                                 *)
(*                                                                         *)
(* String literals of the source are Chinese; the lexer takes ASCII only,  *)
(* so each is written here as an English rendering of the same literal.    *)
(***************************************************************************)
EXTENDS Integers, Sequences, FiniteSets

\* Number of requests the server receives in a run (each request is served once).
MaxReq == 2

Reqs == 1..MaxReq

(***************************************************************************)
(* Values                                                                  *)
(***************************************************************************)
NoValue == "None"

\* Exceptions that travel through the code.  "Exception" stands for every
\* exception class other than the two the code names in an except clause.
InvalidSignatureError == "InvalidSignatureError"
LineBotApiError == "LineBotApiError"
OtherException == "Exception"
NoException == "no exception"

\* X-Line-Signature as request.headers.get returns it (src/app.py:62): None when
\* the header is absent, else a string that validates against the channel secret
\* or does not.
Signatures == {"valid", "invalid", NoValue}

\* The text of an inbound text message.
Texts == {"7", "hello"}

\* Inbound events: a reply token, a message type and (image) a message id or
\* (text) a text.  "sticker" stands for every event no handler is registered for.
\* Tokens and message ids are tagged tuples; <<>> and "" stand for an absent one.
Event(tok, type, id, text) ==
    [reply_token |-> tok, type |-> type, message_id |-> id, text |-> text]

ReplyToken(r) == <<"reply-token", r>>

MessageId(r) == <<"message-id", r>>

NoEvent == Event(<<>>, NoValue, <<>>, "")

Events(r) ==
    {Event(ReplyToken(r), "text", <<>>, t) : t \in Texts}
        \cup {Event(ReplyToken(r), "image", MessageId(r), ""),
              Event(ReplyToken(r), "sticker", <<>>, "")}

\* Reply texts (src/app.py:80, 107, 114, 120).
TEXT_PROMPT == <<"Please send a picture of a handwritten digit!">>
PREDICTION_PREFIX == "Recognition result: "
TEXT_API_ERROR == <<"Image processing failed (LINE API error: ", LineBotApiError, ")">>
TEXT_FAILED == <<"Image processing failed, please try again later!">>

\* str() of a numpy integer 0..9 inside the f-string of src/app.py:107.
DigitChars == <<"0", "1", "2", "3", "4", "5", "6", "7", "8", "9">>

format_digit(d) == DigitChars[d + 1]

parse_digit(s) == CHOOSE d \in 0..9 : DigitChars[d + 1] = s

prediction_text(d) == <<PREDICTION_PREFIX, format_digit(d)>>

\* What a call of the LINE API can do: return, raise LineBotApiError (the
\* platform answered with an error status), raise something else (transport).
ApiOutcomes == {"ok", LineBotApiError, OtherException}


(***************************************************************************)
(* preprocess_image (src/app.py:46-57)                                     *)
(*                                                                         *)
(* Image bytes are the picture they encode: a container format, a colour   *)
(* mode, a size and the pixels, or bytes that are no picture at all.  A     *)
(* decoded picture is [mode, size = <<width, height>>, px = rows of pixels]. *)
(***************************************************************************)
TARGET_SIZE == 28

MAX_PIXEL == 255

ImageFormats == {"PNG", "JPEG"}

Modes == {"1", "L", "RGB", "RGBA"}

Patterns == {"black", "white", "checker", "ramp"}

\* Source resolutions <<width, height>>: smaller than, equal to and larger than
\* the target, square and not.
Sizes == {<<1, 1>>, <<2, 3>>, <<3, 2>>, <<28, 28>>, <<30, 29>>}

\* The grey level of pattern pat at column x, row y (both from 0).
Level(pat, x, y) ==
    CASE pat = "black" -> 0
      [] pat = "white" -> 255
      [] pat = "checker" -> IF (x + y) % 2 = 0 THEN 255 ELSE 0
      [] pat = "ramp" -> (x * 97 + y * 41) % 256

\* One pixel of a picture of mode m: a number (1, L) or a tuple of bands.
Pixel(m, pat, x, y) ==
    LET v == Level(pat, x, y)
    IN  CASE m = "L" -> v
          [] m = "1" -> IF v >= 128 THEN 255 ELSE 0
          [] m = "RGB" -> <<v, (v * 3) % 256, 255 - v>>
          [] m = "RGBA" -> <<v, (v * 3) % 256, 255 - v, (v * 5) % 256>>

ImageBytes(fmt, m, size, pat, truncated) ==
    [format |-> fmt, mode |-> m, size |-> size, pattern |-> pat, truncated |-> truncated]

NotAnImage == ImageBytes("none", NoValue, <<0, 0>>, NoValue, FALSE)

\* A sequence held as its elements in memory (pixel buffers, arrays).
Stored(seq) == seq \o <<>>

\* The tensor of a handler that has none yet.
NoTensor == [shape |-> <<>>, data |-> <<>>, den |-> 1]

Raise(e) == [raised |-> TRUE, exc |-> e, value |-> NoTensor]

Return(v) == [raised |-> FALSE, exc |-> NoException, value |-> v]

\* Image.open(BytesIO(bytes)): identifies the container, or raises
\* UnidentifiedImageError.  The pixels are decoded by the load that convert starts,
\* which raises OSError on a truncated file.
Image_open(bytes) ==
    IF bytes.format \notin ImageFormats
    THEN Raise(OtherException)
    ELSE Return(bytes)

Image_load(opened) ==
    IF opened.truncated
    THEN Raise(OtherException)
    ELSE Return([mode |-> opened.mode,
                 size |-> opened.size,
                 px |-> Stored([y \in 1..opened.size[2] |->
                            Stored([x \in 1..opened.size[1] |->
                                Pixel(opened.mode, opened.pattern, x - 1, y - 1)])])])

\* Pillow's L = R*299/1000 + G*587/1000 + B*114/1000 in 16-bit fixed point.
Luma(r, g, b) == (r * 19595 + g * 38470 + b * 7471 + 32768) \div 65536

GreyOf(m, p) ==
    CASE m = "L" -> p
      [] m = "1" -> IF p = 0 THEN 0 ELSE 255
      [] m \in {"RGB", "RGBA"} -> Luma(p[1], p[2], p[3])

\* img.convert('L')
convert_L(img) ==
    [mode |-> "L",
     size |-> img.size,
     px |-> Stored([y \in 1..img.size[2] |->
                Stored([x \in 1..img.size[1] |-> GreyOf(img.mode, img.px[y][x])])])]

\* Variant of clip8 that stores the sample as computed.
clip8_unclipped(v) == v

\* Pillow stores a resampled sample in 8 bits: below 0 becomes 0, above 255
\* becomes 255.
clip8(v) == IF v < 0 THEN 0 ELSE IF v > MAX_PIXEL THEN MAX_PIXEL ELSE v

\* The Lanczos kernel sinc(x) * sinc(x/3), support 3, in thousandths, at
\* x = 0, 0.5, 1, ..., 3 (half-pixel phases).
LANCZOS_SUPPORT == 3

LanczosWeights == <<1000, 608, 0, -135, 0, 24, 0>>

Abs(n) == IF n < 0 THEN -n ELSE n

Max(a, b) == IF a > b THEN a ELSE b

\* The kernel's weight of source sample xx for output sample x (both from 0) when
\* n samples are resampled to m: the distance between the centres, divided by the
\* filter scale max(n/m, 1), rounded to a half-pixel phase.
LanczosWeight(xx, x, n, m) ==
    LET num == Abs((2 * xx + 1) * m - (2 * x + 1) * n)
        den == Max(n, m)
        q == (2 * num + den) \div (2 * den)
    IN  IF q >= 2 * LANCZOS_SUPPORT THEN 0 ELSE LanczosWeights[q + 1]

\* f[1] + ... + f[n]
SumTo(f, n) ==
    LET partial[k \in 0..n] == IF k = 0 THEN 0 ELSE f[k] + partial[k - 1]
    IN  partial[n]

\* One resampling pass over a line of n samples: each of the m outputs is the
\* normalised weighted sum of the samples, rounded and clipped to 8 bits.
ResampleLine(line, m) ==
    LET n == Len(line)
    IN  Stored([x \in 1..m |->
            LET w == Stored([xx \in 1..n |-> LanczosWeight(xx - 1, x - 1, n, m)])
                total == SumTo(w, n)
                acc == SumTo(Stored([xx \in 1..n |-> w[xx] * line[xx]]), n)
            IN  clip8((2 * acc + total) \div (2 * total))])

\* img.resize((28, 28), Image.Resampling.LANCZOS): a picture already of that
\* size is copied; otherwise a horizontal pass, then a vertical pass.
resize(img, size) ==
    IF img.size = size
    THEN img
    ELSE LET h == img.size[2]
             horiz == Stored([y \in 1..h |-> ResampleLine(img.px[y], size[1])])
             cols == Stored([x \in 1..size[1] |->
                         ResampleLine(Stored([y \in 1..h |-> horiz[y][x]]), size[2])])
         IN  [mode |-> img.mode,
              size |-> size,
              px |-> Stored([y \in 1..size[2] |->
                         Stored([x \in 1..size[1] |-> cols[x][y]])])]

\* np.array(img): shape (height, width), the samples row by row.
np_array(img) ==
    LET w == img.size[1]
        h == img.size[2]
    IN  [shape |-> <<h, w>>,
         data |-> Stored([i \in 1..(w * h) |->
                             img.px[((i - 1) \div w) + 1][((i - 1) % w) + 1]])]

\* arr / 255.0: element i of the result is the float nearest data[i] / den.

divide(arr, d) ==
    [shape |-> arr.shape, data |-> arr.data, den |-> d]

\* The number of elements of an array of that shape.
Product(shape) ==
    LET partial[k \in 0..Len(shape)] == IF k = 0 THEN 1 ELSE shape[k] * partial[k - 1]
    IN  partial[Len(shape)]

\* ndarray.reshape: the same elements under a new shape, ValueError when the
\* element counts differ.
reshape(arr, shape) ==
    IF Product(shape) # Len(arr.data)
    THEN Raise(OtherException)
    ELSE Return([shape |-> shape, data |-> arr.data, den |-> arr.den])

TENSOR_SHAPE == <<1, TARGET_SIZE, TARGET_SIZE, 1>>

\* preprocess_image: every exception is logged and raised again (lines 55-57).
preprocess_image(bytes) ==
    LET opened == Image_open(bytes)
    IN  IF opened.raised
        THEN opened
        ELSE LET loaded == Image_load(opened.value)
             IN  IF loaded.raised
                 THEN loaded
                 ELSE LET img == resize(convert_L(loaded.value),
                                        <<TARGET_SIZE, TARGET_SIZE>>)
                          scaled == divide(np_array(img), MAX_PIXEL)
                      IN  reshape(scaled, TENSOR_SHAPE)

\* Every picture of the bounded input space, and bytes that are no picture.
AllImages ==
    {ImageBytes(f, m, s, p, FALSE) : f \in {"PNG"}, m \in Modes, s \in Sizes, p \in Patterns}

AllContents ==
    AllImages
        \cup {NotAnImage,
              ImageBytes("JPEG", "RGB", <<3, 2>>, "ramp", TRUE),
              ImageBytes("JPEG", "L", <<2, 3>>, "checker", FALSE)}


(***************************************************************************)
(* The classifier (src/app.py:39, 100-101)                                 *)
(*                                                                         *)
(* model.predict returns one row of 10 class scores (the softmax output,   *)
(* here in hundredths); the weights are in the .h5 file, so the row is an   *)
(* input.  np.argmax(prediction, axis=1)[0] is the first index of the       *)
(* row's maximum.                                                          *)
(***************************************************************************)
LOADED_MODEL == "temp_model/digit_recognizer.h5"

Classes == 0..9

NUM_CLASSES == 10

\* A row whose maximum is reached twice (classes 3 and 7) and a row whose
\* maximum is the last class.
Distributions ==
    {[i \in 1..NUM_CLASSES |-> IF i \in {4, 8} THEN 40 ELSE IF i = 1 THEN 20 ELSE 0],
     [i \in 1..NUM_CLASSES |-> IF i = NUM_CLASSES THEN 46 ELSE 6]}

IsMax(p, i) == \A j \in DOMAIN p : p[j] <= p[i]

\* Variant of argmax that takes the last index of the maximum.
argmax_last(p) == (CHOOSE i \in DOMAIN p : IsMax(p, i) /\ \A j \in DOMAIN p : IsMax(p, j) => j <= i) - 1

\* np.argmax: the first index of the maximum, counted from 0.
argmax(p) ==
    (CHOOSE i \in DOMAIN p : IsMax(p, i) /\ \A j \in DOMAIN p : IsMax(p, j) => i <= j) - 1

(***************************************************************************)
(* The webhook (src/app.py:60-121)                                         *)
(***************************************************************************)
VARIABLES
    pc,               \* where each request's thread is
    signature,        \* callback's signature
    event,            \* the event of the request's body
    image_data,       \* handle_image_message's locals
    img_array,
    prediction,
    predicted_digit,
    exc,              \* the exception leaving handler.handle, if any
    status,           \* the HTTP status answered (0: none yet)
    calls,            \* the calls the request made, in order
    logs,             \* the request's log lines, in order
    model             \* the module-level model object

vars == <<pc, signature, event, image_data, img_array, prediction, predicted_digit,
          exc, status, calls, logs, model>>

locals == <<image_data, img_array, prediction, predicted_digit>>

\* Images the platform serves in the webhook runs: a picture and bytes that are
\* none.
Contents == {ImageBytes("PNG", "RGB", <<2, 3>>, "checker", FALSE), NotAnImage}

Call(op, arg, text, result) == [op |-> op, arg |-> arg, text |-> text, result |-> result]

Log(level, msg) == [level |-> level, msg |-> msg]

\* WebhookHandler.handle's signature check (line 67).  A header that validates
\* passes; one that does not raises InvalidSignatureError.  callback passes
\* the None of an absent header on unchecked: the validator either rejects it or
\* fails on it with an exception of another class (None has no encode).
signature_outcomes(sig) ==
    CASE sig = "valid" -> {NoException}
      [] sig = "invalid" -> {InvalidSignatureError}
      [] sig = NoValue -> {InvalidSignatureError, OtherException}

\* Variant of dispatch with the image handler registered for text messages too.
dispatch_all_to_image(ev) == IF ev.type \in {"text", "image"} THEN "fetch" ELSE "respond"

\* The handler registered for the event's message type (lines 75, 84); events
\* without one are skipped.
dispatch(ev) ==
    CASE ev.type = "text" -> "text_reply"
      [] ev.type = "image" -> "fetch"
      [] OTHER -> "respond"

\* Variant of next_in_try with inference moved before preprocessing.
next_in_try_swapped(step) ==
    CASE step = "fetch" -> "predict"
      [] step = "predict" -> "preprocess"
      [] step = "preprocess" -> "reply"
      [] step = "reply" -> "respond"

\* The statements of handle_image_message's try block, in order (lines 91-108).
next_in_try(step) ==
    CASE step = "fetch" -> "preprocess"
      [] step = "preprocess" -> "predict"
      [] step = "predict" -> "reply"
      [] step = "reply" -> "respond"

\* The except clause an exception raised in the try block enters (lines 110, 116).
except_branch(e) == IF e = LineBotApiError THEN "except_api" ELSE "except_any"

\* Variant of after_try in which the except clause runs after the reply too.
after_try_finally(step, e) == IF e = NoException /\ step # "reply" THEN next_in_try(step) ELSE except_branch(e)

\* Where the try block goes after a statement returned or raised.
after_try(step, e) == IF e = NoException THEN next_in_try(step) ELSE except_branch(e)

\* callback's answer (lines 66-72): abort(400) on InvalidSignatureError, 'OK'
\* when handle returned; any other exception leaves callback and the framework
\* answers 500.
http_status(e) ==
    CASE e = NoException -> 200
      [] e = InvalidSignatureError -> 400
      [] OTHER -> 500

Outcome(result) == IF result = "ok" THEN NoException ELSE result

Init ==
    /\ pc = [r \in Reqs |-> "idle"]
    /\ signature = [r \in Reqs |-> NoValue]
    /\ event = [r \in Reqs |-> NoEvent]
    /\ image_data = [r \in Reqs |-> NoValue]
    /\ img_array = [r \in Reqs |-> NoTensor]
    /\ prediction = [r \in Reqs |-> <<>>]
    /\ predicted_digit = [r \in Reqs |-> NoValue]
    /\ exc = [r \in Reqs |-> NoException]
    /\ status = [r \in Reqs |-> 0]
    /\ calls = [r \in Reqs |-> <<>>]
    /\ logs = [r \in Reqs |-> <<>>]
    /\ model = LOADED_MODEL

\* callback, lines 62-64: a POST arrives; requests are numbered as they arrive.
Receive(r) ==
    /\ pc[r] = "idle"
    /\ \A q \in Reqs : q < r => pc[q] # "idle"
    /\ \E sig \in Signatures : signature' = [signature EXCEPT ![r] = sig]
    /\ pc' = [pc EXCEPT ![r] = "handle"]
    /\ logs' = [logs EXCEPT ![r] = Append(@, Log("info", "received webhook request"))]
    /\ UNCHANGED <<event, locals, exc, status, calls, model>>

\* callback, line 67: handler.handle checks the signature, then parses the
\* body into its event (the platform gives each event a reply token of its own)
\* and calls the handler of the event.
Handle(r) ==
    /\ pc[r] = "handle"
    /\ \E e \in signature_outcomes(signature[r]) :
           IF e = NoException
           THEN \E ev \in Events(r) :
                    /\ event' = [event EXCEPT ![r] = ev]
                    /\ pc' = [pc EXCEPT ![r] = dispatch(ev)]
                    /\ exc' = exc
           ELSE /\ pc' = [pc EXCEPT ![r] = "respond"]
                /\ exc' = [exc EXCEPT ![r] = e]
                /\ event' = event
    /\ UNCHANGED <<signature, locals, status, calls, logs, model>>

\* handle_text_message, lines 76-81: nothing catches what reply_message raises.
TextReply(r) ==
    /\ pc[r] = "text_reply"
    /\ \E result \in ApiOutcomes :
           /\ calls' = [calls EXCEPT ![r] =
                  Append(@, Call("reply_message", event[r].reply_token, TEXT_PROMPT, result))]
           /\ exc' = [exc EXCEPT ![r] = Outcome(result)]
    /\ logs' = [logs EXCEPT ![r] = Append(@, Log("info", "received text message"))]
    /\ pc' = [pc EXCEPT ![r] = "respond"]
    /\ UNCHANGED <<signature, event, locals, status, model>>

\* handle_image_message, lines 87-93.
Fetch(r) ==
    /\ pc[r] = "fetch"
    /\ \/ \E content \in Contents :
              /\ image_data' = [image_data EXCEPT ![r] = content]
              /\ calls' = [calls EXCEPT ![r] =
                     Append(@, Call("get_message_content", event[r].message_id, <<>>, "ok"))]
              /\ logs' = [logs EXCEPT ![r] =
                     @ \o <<Log("info", "received image message"),
                            Log("info", "image downloaded")>>]
              /\ pc' = [pc EXCEPT ![r] = after_try("fetch", NoException)]
       \/ \E e \in {LineBotApiError, OtherException} :
              /\ calls' = [calls EXCEPT ![r] =
                     Append(@, Call("get_message_content", event[r].message_id, <<>>, e))]
              /\ logs' = [logs EXCEPT ![r] = Append(@, Log("info", "received image message"))]
              /\ pc' = [pc EXCEPT ![r] = after_try("fetch", e)]
              /\ UNCHANGED image_data
    /\ UNCHANGED <<signature, event, img_array, prediction, predicted_digit,
                   exc, status, model>>

\* preprocess_image of every input, evaluated once.
Preprocessed == {<<c, preprocess_image(c)>> : c \in AllContents}

call_preprocess_image(image_data_r) ==
    (CHOOSE p \in Preprocessed : p[1] = image_data_r)[2]

\* handle_image_message, line 96, and preprocess_image's own logging.
Preprocess(r) ==
    /\ pc[r] = "preprocess"
    /\ LET res == call_preprocess_image(image_data[r])
       IN  /\ calls' = [calls EXCEPT ![r] =
                  Append(@, Call("preprocess_image", <<>>, <<>>,
                                 IF res.raised THEN res.exc ELSE "ok"))]
           /\ img_array' = IF res.raised
                            THEN img_array
                            ELSE [img_array EXCEPT ![r] = res.value]
           /\ logs' = [logs EXCEPT ![r] =
                  Append(@, IF res.raised
                            THEN Log("error", "image preprocessing failed")
                            ELSE Log("info", "image preprocessing done"))]
           /\ pc' = [pc EXCEPT ![r] = after_try("preprocess", res.exc)]
    /\ UNCHANGED <<signature, event, image_data, prediction, predicted_digit,
                   exc, status, model>>

\* handle_image_message, lines 99-102.
Predict(r) ==
    /\ pc[r] = "predict"
    /\ \/ \E p \in Distributions :
              /\ prediction' = [prediction EXCEPT ![r] = p]
              /\ predicted_digit' = [predicted_digit EXCEPT ![r] = argmax(p)]
              /\ calls' = [calls EXCEPT ![r] =
                     Append(@, Call("model.predict", <<>>, <<>>, "ok"))]
              /\ logs' = [logs EXCEPT ![r] = Append(@, Log("info", "prediction result"))]
              /\ pc' = [pc EXCEPT ![r] = after_try("predict", NoException)]
       \/ /\ calls' = [calls EXCEPT ![r] =
                 Append(@, Call("model.predict", <<>>, <<>>, OtherException))]
          /\ pc' = [pc EXCEPT ![r] = after_try("predict", OtherException)]
          /\ UNCHANGED <<prediction, predicted_digit, logs>>
    /\ UNCHANGED <<signature, event, image_data, img_array, exc, status, model>>

\* handle_image_message, lines 105-109.
Reply(r) ==
    /\ pc[r] = "reply"
    /\ \E result \in ApiOutcomes :
           /\ calls' = [calls EXCEPT ![r] =
                  Append(@, Call("reply_message", event[r].reply_token,
                                 prediction_text(predicted_digit[r]), result))]
           /\ logs' = [logs EXCEPT ![r] =
                  IF result = "ok" THEN Append(@, Log("info", "total time")) ELSE @]
           /\ pc' = [pc EXCEPT ![r] = after_try("reply", Outcome(result))]
    /\ UNCHANGED <<signature, event, locals, exc, status, model>>

\* handle_image_message, lines 110-115: what this reply_message raises leaves
\* the handler.
ExceptApi(r) ==
    /\ pc[r] = "except_api"
    /\ \E result \in ApiOutcomes :
           /\ calls' = [calls EXCEPT ![r] =
                  Append(@, Call("reply_message", event[r].reply_token, TEXT_API_ERROR, result))]
           /\ exc' = [exc EXCEPT ![r] = Outcome(result)]
    /\ logs' = [logs EXCEPT ![r] = Append(@, Log("error", "LINE API error"))]
    /\ pc' = [pc EXCEPT ![r] = "respond"]
    /\ UNCHANGED <<signature, event, locals, status, model>>

\* handle_image_message, lines 116-121: the same for every other exception.
ExceptAny(r) ==
    /\ pc[r] = "except_any"
    /\ \E result \in ApiOutcomes :
           /\ calls' = [calls EXCEPT ![r] =
                  Append(@, Call("reply_message", event[r].reply_token, TEXT_FAILED, result))]
           /\ exc' = [exc EXCEPT ![r] = Outcome(result)]
    /\ logs' = [logs EXCEPT ![r] = Append(@, Log("error", "image processing failed"))]
    /\ pc' = [pc EXCEPT ![r] = "respond"]
    /\ UNCHANGED <<signature, event, locals, status, model>>

\* callback, lines 68-72, and the framework's answer to an exception that
\* leaves callback.
Respond(r) ==
    /\ pc[r] = "respond"
    /\ status' = [status EXCEPT ![r] = http_status(exc[r])]
    /\ logs' = [logs EXCEPT ![r] =
           IF exc[r] = InvalidSignatureError
           THEN Append(@, Log("error", "invalid signature"))
           ELSE @]
    /\ pc' = [pc EXCEPT ![r] = "done"]
    /\ UNCHANGED <<signature, event, locals, exc, calls, model>>

Next ==
    \E r \in Reqs :
        \/ Receive(r)
        \/ Handle(r)
        \/ TextReply(r)
        \/ Fetch(r)
        \/ Preprocess(r)
        \/ Predict(r)
        \/ Reply(r)
        \/ ExceptApi(r)
        \/ ExceptAny(r)
        \/ Respond(r)

Spec == Init /\ [][Next]_vars


(***************************************************************************)
(* preprocess_image alone: a request that has fetched any content of the   *)
(* input space, about to run line 96.                                      *)
(***************************************************************************)
InitPre ==
    /\ pc = [r \in Reqs |-> IF r = 1 THEN "preprocess" ELSE "idle"]
    /\ signature = [r \in Reqs |-> IF r = 1 THEN "valid" ELSE NoValue]
    /\ event = [r \in Reqs |->
                   IF r = 1 THEN Event(ReplyToken(1), "image", MessageId(1), "") ELSE NoEvent]
    /\ \E content \in AllContents :
           image_data = [r \in Reqs |-> IF r = 1 THEN content ELSE NoValue]
    /\ img_array = [r \in Reqs |-> NoTensor]
    /\ prediction = [r \in Reqs |-> <<>>]
    /\ predicted_digit = [r \in Reqs |-> NoValue]
    /\ exc = [r \in Reqs |-> NoException]
    /\ status = [r \in Reqs |-> 0]
    /\ calls = [r \in Reqs |->
                   IF r = 1
                   THEN <<Call("get_message_content", MessageId(1), <<>>, "ok")>>
                   ELSE <<>>]
    /\ logs = [r \in Reqs |->
                  IF r = 1
                  THEN <<Log("info", "received webhook request"),
                         Log("info", "received image message"),
                         Log("info", "image downloaded")>>
                  ELSE <<>>]
    /\ model = LOADED_MODEL

NextPre == Preprocess(1)

SpecPre == InitPre /\ [][NextPre]_vars

(***************************************************************************)
(* What the claims speak of                                                *)
(***************************************************************************)
Done(r) == pc[r] = "done"

InFlight(r) == pc[r] \notin {"idle", "done"}

IsReply(c) == c.op = "reply_message"

IsPredictionReply(c) == IsReply(c) /\ Len(c.text) > 0 /\ c.text[1] = PREDICTION_PREFIX

Made(r, op) == \E i \in DOMAIN calls[r] : calls[r][i].op = op

Raised(r, op) == \E i \in DOMAIN calls[r] : calls[r][i].op = op /\ calls[r][i].result # "ok"

Returned(r, op) == \E i \in DOMAIN calls[r] : calls[r][i].op = op /\ calls[r][i].result = "ok"

IsImageEvent(r) == event[r].type = "image"

IsTextEvent(r) == event[r].type = "text"

Logged(r, level, msg) == \E i \in DOMAIN logs[r] : logs[r][i] = Log(level, msg)

(***************************************************************************)
(* Claims                                                                  *)
(***************************************************************************)

\* C1: a request whose X-Line-Signature header is missing or does not validate
\* is answered 400, and neither model.predict nor reply_message is called for it.
C1_BadSignatureRejected ==
    \A r \in Reqs :
        (Done(r) /\ signature[r] # "valid") =>
            /\ status[r] = 400
            /\ ~Made(r, "model.predict")
            /\ ~Made(r, "reply_message")

\* C2: every request is answered 200 (valid signature, no exception left the
\* event handling) or 400 (signature check failed, or an exception left the
\* event handling), and with no other status.
C2_OkOrBadRequest ==
    \A r \in Reqs :
        Done(r) =>
            /\ status[r] \in {200, 400}
            /\ status[r] = 200 <=> (signature[r] = "valid" /\ exc[r] = NoException)
            /\ status[r] = 400 <=> (signature[r] # "valid" \/ exc[r] # NoException)

\* C3: for a validly signed text event, whatever its text, the handler makes
\* exactly one reply_message call, with the fixed prompt and the event's reply
\* token, and calls neither get_message_content, preprocess_image nor
\* model.predict.
C3_TextGetsPrompt ==
    \A r \in Reqs :
        IsTextEvent(r) =>
            IF pc[r] = "text_reply"
            THEN calls[r] = <<>>
            ELSE /\ Len(calls[r]) = 1
                 /\ IsReply(calls[r][1])
                 /\ calls[r][1].arg = event[r].reply_token
                 /\ calls[r][1].text = TEXT_PROMPT
                 /\ ~Made(r, "get_message_content")
                 /\ ~Made(r, "preprocess_image")
                 /\ ~Made(r, "model.predict")

C3_Witness ==
    \E r \in Reqs :
        /\ Done(r)
        /\ IsTextEvent(r)
        /\ event[r].text = "7"
        /\ calls[r] = <<Call("reply_message", ReplyToken(r), TEXT_PROMPT, "ok")>>
        /\ status[r] = 200

\* C4: an image event gets at most one reply: at most one reply_message call on
\* its reply token succeeds, and no reply_message call follows one that succeeded.
C4_AtMostOneReply ==
    \A r \in Reqs :
        IsImageEvent(r) =>
            /\ Cardinality({i \in DOMAIN calls[r] :
                               IsReply(calls[r][i]) /\ calls[r][i].result = "ok"}) <= 1
            /\ \A i, j \in DOMAIN calls[r] :
                   (i < j /\ IsReply(calls[r][i]) /\ calls[r][i].result = "ok")
                       => ~IsReply(calls[r][j])
            /\ \A i \in DOMAIN calls[r] :
                   IsReply(calls[r][i]) => calls[r][i].arg = event[r].reply_token

\* A first reply_message raised and the second one, of the except branch, got
\* through.
C4_Witness ==
    \E r \in Reqs :
        /\ Done(r)
        /\ IsImageEvent(r)
        /\ \E i, j \in DOMAIN calls[r] :
               /\ i < j
               /\ IsPredictionReply(calls[r][i])
               /\ calls[r][i].result = LineBotApiError
               /\ IsReply(calls[r][j])
               /\ calls[r][j].result = "ok"

\* C5: when preprocess_image or model.predict raises for a validly signed
\* image event, no prediction reply is sent, the user receives the generic
\* failure text, the request is answered 200, and after a decoding failure
\* model.predict is not called.
C5_FailureIsReportedAndOk ==
    \A r \in Reqs :
        (Done(r) /\ (Raised(r, "preprocess_image") \/ Raised(r, "model.predict"))) =>
            /\ \A i \in DOMAIN calls[r] : ~IsPredictionReply(calls[r][i])
            /\ \E i \in DOMAIN calls[r] :
                   calls[r][i] = Call("reply_message", event[r].reply_token, TEXT_FAILED, "ok")
            /\ status[r] = 200
            /\ Raised(r, "preprocess_image") => ~Made(r, "model.predict")

\* C6: for a validly signed text or image event, no exception raised while it
\* is processed leaves handler.handle.
C6_NothingEscapes ==
    \A r \in Reqs :
        (signature[r] = "valid" /\ event[r].type \in {"text", "image"}) =>
            /\ exc[r] = NoException
            /\ Done(r) => status[r] = 200

\* C7: when the reply_message call carrying the prediction raises
\* LineBotApiError, the error is logged, exactly one more reply_message call is
\* made, with an error text on the same token, and when that one fails too
\* nothing leaves the handler: the request completes as handled.
C7_SecondFailureDropped ==
    \A r \in Reqs :
        (Done(r) /\ \E i \in DOMAIN calls[r] :
                        IsPredictionReply(calls[r][i]) /\ calls[r][i].result = LineBotApiError)
            => /\ Logged(r, "error", "LINE API error")
               /\ Cardinality({i \in DOMAIN calls[r] : IsReply(calls[r][i])}) = 2
               /\ calls[r][Len(calls[r])].text = TEXT_API_ERROR
               /\ calls[r][Len(calls[r])].arg = event[r].reply_token
               /\ exc[r] = NoException
               /\ status[r] = 200

\* C8: when fetch, preprocessing and inference succeeded, the reply text is the
\* prefix followed by the decimal form of an integer d in 0..9 that is the lowest
\* index at which the model's 10 scores for the image reach their maximum.
C8_ReplyDigitIsArgmax ==
    \A r \in Reqs :
        /\ \A i \in DOMAIN calls[r] :
               IsPredictionReply(calls[r][i]) =>
                   /\ Len(calls[r][i].text) = 2
                   /\ \E d \in Classes : calls[r][i].text[2] = DigitChars[d + 1]
                   /\ Len(prediction[r]) = NUM_CLASSES
                   /\ LET d == parse_digit(calls[r][i].text[2])
                      IN  /\ \A j \in 1..NUM_CLASSES : prediction[r][j] <= prediction[r][d + 1]
                          /\ \A j \in 1..d : prediction[r][j] < prediction[r][d + 1]
        /\ (Returned(r, "model.predict") /\ pc[r] # "reply") =>
               \E i \in DOMAIN calls[r] : IsPredictionReply(calls[r][i])

\* The scores reach their maximum at classes 3 and 7; the reply says 3.
C8_Witness ==
    \E r \in Reqs :
        /\ Done(r)
        /\ Len(prediction[r]) = NUM_CLASSES
        /\ prediction[r][4] = prediction[r][8]
        /\ prediction[r][4] = 40
        /\ Len(calls[r]) = 4
        /\ calls[r][4] = Call("reply_message", ReplyToken(r), <<PREDICTION_PREFIX, "3">>, "ok")

\* C9: for a decodable image of any resolution and colour mode,
\* preprocess_image returns a tensor of shape (1,28,28,1) with 784 elements,
\* each a grey level of 0..255 divided by 255, so within [0,1]; the image bytes
\* are left as they were and only the log changes besides.
C9_TensorShapeAndRange ==
    [][\A r \in Reqs :
           (pc[r] = "preprocess" /\ pc'[r] # "preprocess") =>
               /\ image_data' = image_data
               /\ UNCHANGED <<signature, event, prediction, predicted_digit, exc,
                              status, model>>
               /\ (image_data[r].format \in ImageFormats /\ ~image_data[r].truncated) =>
                      /\ pc'[r] = "predict"
                      /\ img_array'[r].shape = <<1, 28, 28, 1>>
                      /\ Len(img_array'[r].data) = 784
                      /\ img_array'[r].den = 255
                      /\ \A i \in 1..784 :
                             /\ img_array'[r].data[i] \in 0..255
                             /\ 0 <= img_array'[r].data[i]
                             /\ img_array'[r].data[i] <= img_array'[r].den
               /\ ~(image_data[r].format \in ImageFormats /\ ~image_data[r].truncated) =>
                      /\ img_array'[r] = img_array[r]
                      /\ pc'[r] = "except_any"]_vars

\* A 30x29 RGBA picture became a tensor with a grey level strictly between
\* black and white in it.
C9_Witness ==
    /\ pc[1] = "predict"
    /\ image_data[1].mode = "RGBA"
    /\ image_data[1].size = <<30, 29>>
    /\ img_array[1].shape = TENSOR_SHAPE
    /\ \E i \in 1..784 : img_array[1].data[i] \in 1..254

\* The order of one image request's calls: get_message_content first,
\* preprocess_image only after it returned, model.predict only after
\* preprocess_image returned, the prediction reply only after model.predict
\* returned.
PipelineInOrder(r) ==
    \A i \in DOMAIN calls[r] :
        /\ calls[r][i].op = "get_message_content" => i = 1
        /\ calls[r][i].op = "preprocess_image" =>
               i = 2 /\ calls[r][1] = Call("get_message_content", event[r].message_id, <<>>, "ok")
        /\ calls[r][i].op = "model.predict" =>
               i = 3 /\ calls[r][2] = Call("preprocess_image", <<>>, <<>>, "ok")
        /\ IsPredictionReply(calls[r][i]) =>
               i = 4 /\ calls[r][3] = Call("model.predict", <<>>, <<>>, "ok")

=============================================================================
